---------------------------- MODULE Spec2Model ----------------------------
(***************************************************************************)
(* Model of analyzeSurveyData (src/server.js), the survey analysis of the  *)
(* SPMI dashboard server: column classification, numeric statistics and    *)
(* qualitative sampling over rows parsed from an uploaded file.            *)
(*                                                                         *)
(* JavaScript values are records tagged by type.  Strings are sequences of *)
(* one-character strings, so that parseFloat, Number(), String() and       *)
(* trim() are computed character by character.  JavaScript numbers are     *)
(* exact rationals n/d, +-Infinity or NaN (the values of the model are     *)
(* small integers and short decimals, which doubles represent exactly).    *)
(***************************************************************************)
EXTENDS Integers, Sequences, FiniteSets

(***************************************************************************)
(* Numbers                                                                 *)
(***************************************************************************)
Abs(x) == IF x < 0 THEN -x ELSE x

RECURSIVE GCD(_, _)
GCD(a, b) == IF b = 0 THEN a ELSE GCD(b, a % b)

NaN == [k |-> "nan"]

Inf(sgn) == [k |-> "inf", s |-> sgn]

\* the rational n/d (d > 0) in lowest terms
Fin(n, d) ==
    LET g == GCD(Abs(n), d)
    IN  [k |-> "fin", n |-> n \div g, d |-> d \div g]

isNaN(x) == x.k = "nan"

\* a + b
Add(a, b) ==
    IF a.k = "nan" \/ b.k = "nan" THEN NaN
    ELSE IF a.k = "inf" /\ b.k = "inf" THEN (IF a.s = b.s THEN a ELSE NaN)
    ELSE IF a.k = "inf" THEN a
    ELSE IF b.k = "inf" THEN b
    ELSE Fin(a.n * b.d + b.n * a.d, a.d * b.d)

\* a / c for an integer c > 0
DivInt(a, c) ==
    IF a.k = "fin" THEN Fin(a.n, a.d * c) ELSE a

\* a < b (false when either is NaN)
Less(a, b) ==
    IF a.k = "nan" \/ b.k = "nan" THEN FALSE
    ELSE IF a.k = "inf" THEN a.s = -1 /\ ~(b.k = "inf" /\ b.s = -1)
    ELSE IF b.k = "inf" THEN b.s = 1
    ELSE a.n * b.d < b.n * a.d

(***************************************************************************)
(* Values and strings                                                      *)
(***************************************************************************)
Undefined == [t |-> "undefined"]

Null == [t |-> "null"]

Str(s) == [t |-> "string", s |-> s]

Num(x) == [t |-> "number", v |-> x]

WhiteSpace == {" "}

DigitChars == <<"0", "1", "2", "3", "4", "5", "6", "7", "8", "9">>

HexChars == DigitChars \o <<"a", "b", "c", "d", "e", "f">>

Digits == {DigitChars[i] : i \in 1..Len(DigitChars)}

HexDigits == {HexChars[i] : i \in 1..Len(HexChars)}

DigitVal(c) == (CHOOSE i \in 1..Len(HexChars) : HexChars[i] = c) - 1

InfinityChars == <<"I", "n", "f", "i", "n", "i", "t", "y">>

StartsWith(s, p) == Len(s) >= Len(p) /\ SubSeq(s, 1, Len(p)) = p

RECURSIVE TrimStart(_)
TrimStart(s) ==
    IF s # <<>> /\ Head(s) \in WhiteSpace THEN TrimStart(Tail(s)) ELSE s

RECURSIVE TrimEnd(_)
TrimEnd(s) ==
    IF s # <<>> /\ s[Len(s)] \in WhiteSpace
    THEN TrimEnd(SubSeq(s, 1, Len(s) - 1)) ELSE s

\* String.prototype.trim
Trim(s) == TrimEnd(TrimStart(s))

\* length of the longest prefix of s made of characters of set
RECURSIVE RunLen(_, _)
RunLen(s, set) ==
    IF s # <<>> /\ Head(s) \in set THEN 1 + RunLen(Tail(s), set) ELSE 0

\* the integer written by the digit string s in the given base
RECURSIVE DigitsValue(_, _)
DigitsValue(s, base) ==
    IF s = <<>> THEN 0
    ELSE DigitsValue(SubSeq(s, 1, Len(s) - 1), base) * base + DigitVal(s[Len(s)])

RECURSIVE Pow10(_)
Pow10(e) == IF e = 0 THEN 1 ELSE 10 * Pow10(e - 1)

\* The longest prefix of s that is a StrDecimalLiteral (sign, then Infinity
\* or digits with an optional fraction): whether there is one, its value and
\* its length.  Exponent parts are not modelled: no string of the model has
\* an "e" after a digit.
StrDecimalPrefix(s) ==
    LET sgnLen == IF s # <<>> /\ Head(s) \in {"+", "-"} THEN 1 ELSE 0
        sgn    == IF sgnLen = 1 /\ Head(s) = "-" THEN -1 ELSE 1
        r      == SubSeq(s, sgnLen + 1, Len(s))
        i      == RunLen(r, Digits)
        hasDot == i < Len(r) /\ r[i + 1] = "."
        f      == IF hasDot THEN RunLen(SubSeq(r, i + 2, Len(r)), Digits) ELSE 0
        ip     == DigitsValue(SubSeq(r, 1, i), 10)
        fp     == DigitsValue(SubSeq(r, i + 2, i + 1 + f), 10)
    IN  IF StartsWith(r, InfinityChars)
        THEN [ok |-> TRUE, val |-> Inf(sgn), len |-> sgnLen + Len(InfinityChars)]
        ELSE IF i = 0 /\ f = 0
        THEN [ok |-> FALSE, val |-> NaN, len |-> 0]
        ELSE [ok |-> TRUE,
              val |-> Fin(sgn * (ip * Pow10(f) + fp), Pow10(f)),
              len |-> sgnLen + i + (IF hasDot THEN 1 + f ELSE 0)]

RECURSIVE IntDigits(_)
IntDigits(n) ==
    IF n < 10 THEN <<DigitChars[n + 1]>>
    ELSE IntDigits(n \div 10) \o <<DigitChars[(n % 10) + 1]>>

\* Number::toString, for the numbers a cell can hold in the model (integers)
\* and the non-finite ones
NumberToString(x) ==
    IF x.k = "nan" THEN <<"N", "a", "N">>
    ELSE IF x.k = "inf"
    THEN (IF x.s = -1 THEN <<"-">> ELSE <<>>) \o InfinityChars
    ELSE (IF x.n < 0 THEN <<"-">> ELSE <<>>) \o IntDigits(Abs(x.n))

\* String(value)
ToString(v) ==
    IF v.t = "string" THEN v.s
    ELSE IF v.t = "number" THEN NumberToString(v.v)
    ELSE IF v.t = "null" THEN <<"n", "u", "l", "l">>
    ELSE <<"u", "n", "d", "e", "f", "i", "n", "e", "d">>

\* parseFloat(value): the value's string form, leading white space skipped,
\* longest numeric prefix; NaN when there is none
parseFloat(v) == StrDecimalPrefix(TrimStart(ToString(v))).val

\* StringToNumber: the whole trimmed string must be a numeric literal
\* (decimal or 0x hexadecimal); the empty string is 0
StringToNumber(s) ==
    LET t == Trim(s)
        p == StrDecimalPrefix(t)
    IN  IF t = <<>> THEN Fin(0, 1)
        ELSE IF Len(t) >= 3 /\ t[1] = "0" /\ t[2] \in {"x", "X"}
                /\ RunLen(SubSeq(t, 3, Len(t)), HexDigits) = Len(t) - 2
        THEN Fin(DigitsValue(SubSeq(t, 3, Len(t)), 16), 1)
        ELSE IF p.ok /\ p.len = Len(t) THEN p.val
        ELSE NaN

\* Number(value)
ToNumber(v) ==
    IF v.t = "string" THEN StringToNumber(v.s)
    ELSE IF v.t = "number" THEN v.v
    ELSE IF v.t = "null" THEN Fin(0, 1)
    ELSE NaN

\* the global isFinite(value): Number(value) is neither NaN nor +-Infinity
isFinite(v) == ToNumber(v).k = "fin"

\* ToBoolean(value)
Truthy(v) ==
    IF v.t = "string" THEN v.s # <<>>
    ELSE IF v.t = "number" THEN ~(v.v.k = "nan" \/ (v.v.k = "fin" /\ v.v.n = 0))
    ELSE FALSE

(***************************************************************************)
(* Rows: a row is the sequence of its (key, value) properties in insertion *)
(* order; a dataset is null, undefined or an array of rows.                *)
(***************************************************************************)
Prop(k, v) == [key |-> k, value |-> v]

Array(rows) == [t |-> "array", rows |-> rows]

\* Object.keys(row)
ObjectKeys(row) == [i \in 1..Len(row) |-> row[i].key]

\* row[key]: undefined when the row has no such property
Get(row, key) ==
    IF \E i \in 1..Len(row) : row[i].key = key
    THEN row[CHOOSE i \in 1..Len(row) : row[i].key = key].value
    ELSE Undefined

Range(seq) == {seq[i] : i \in 1..Len(seq)}

Min(a, b) == IF a < b THEN a ELSE b

(***************************************************************************)
(* Column classification                                                   *)
(***************************************************************************)
SampleWindow == 100

CommentCap == 50

SampleCap == 10

\* value !== undefined && value !== null && value !== ''
IsValid(value) ==
    /\ value.t # "undefined"
    /\ value.t # "null"
    /\ ~(value.t = "string" /\ value.s = <<>>)

\* isFinite(parseFloat(value)): the parsed prefix is finite
IsNumericLike_PrefixOnly(value) == parseFloat(value).k = "fin"

\* isFinite(value) alone, without the parseFloat test
IsNumericLike_FiniteOnly(value) == isFinite(value)

\* !isNaN(parseFloat(value)) && isFinite(value)
IsNumericLike(value) == ~isNaN(parseFloat(value)) /\ isFinite(value)

\* the loop bound without the cap of 100 rows
WindowSize_AllRows(rows) == Len(rows)

\* Math.min(data.length, 100)
WindowSize(rows) == Min(Len(rows), SampleWindow)

\* what one iteration of the for loop, on row i (1-based), adds to the
\* counters
CountStep(rows, key, i) ==
    LET value == Get(rows[i], key)
    IN  IF IsValid(value)
        THEN [numericCount |-> IF IsNumericLike(value) THEN 1 ELSE 0,
              totalValid   |-> 1]
        ELSE [numericCount |-> 0, totalValid |-> 0]

\* what the iterations of the for loop on rows lo..hi add to the counters:
\* the increments of the first half of the range and of the second half
RECURSIVE CountLoop(_, _, _, _)
CountLoop(rows, key, lo, hi) ==
    IF lo > hi THEN [numericCount |-> 0, totalValid |-> 0]
    ELSE IF lo = hi THEN CountStep(rows, key, lo)
    ELSE LET mid == (lo + hi) \div 2
             l   == CountLoop(rows, key, lo, mid)
             r   == CountLoop(rows, key, mid + 1, hi)
         IN  [numericCount |-> l.numericCount + r.numericCount,
              totalValid   |-> l.totalValid + r.totalValid]

\* totalValid > 0 && (numericCount / totalValid) >= 0.5, the counters
\* starting at 0
MostlyNumeric(rows, key) ==
    LET c == CountLoop(rows, key, 1, WindowSize(rows))
    IN  c.totalValid > 0 /\ ~Less(Fin(c.numericCount, c.totalValid), Fin(1, 2))

\* allKeys.forEach(key => ... numericColumns.push(key))
NumericColumns(rows, allKeys) ==
    SelectSeq(allKeys, LAMBDA key : MostlyNumeric(rows, key))

\* allKeys, unfiltered
TextColumns_NoFilter(allKeys, numericColumns) == allKeys

\* allKeys.filter(key => !numericColumns.includes(key))
TextColumns(allKeys, numericColumns) ==
    SelectSeq(allKeys, LAMBDA key : key \notin Range(numericColumns))

(***************************************************************************)
(* Numeric statistics                                                      *)
(***************************************************************************)
\* the values of the sample window only
StatValues_WindowOnly(rows, column) ==
    SelectSeq([i \in 1..WindowSize(rows) |-> parseFloat(Get(rows[i], column))],
              LAMBDA val : ~isNaN(val))

\* data.map(row => parseFloat(row[column])).filter(val => !isNaN(val))
StatValues(rows, column) ==
    SelectSeq([i \in 1..Len(rows) |-> parseFloat(Get(rows[i], column))],
              LAMBDA val : ~isNaN(val))

\* values.reduce((acc, val) => acc + val, 0), for the elements lo..hi: the
\* sum of the first half of the range plus that of the second half (the
\* sums of the model are exact, so the grouping does not change them)
RECURSIVE Reduce(_, _, _)
Reduce(values, lo, hi) ==
    IF lo > hi THEN Fin(0, 1)
    ELSE IF lo = hi THEN Add(Fin(0, 1), values[lo])
    ELSE LET mid == (lo + hi) \div 2
         IN  Add(Reduce(values, lo, mid), Reduce(values, mid + 1, hi))

\* the smaller of two numbers
Min2(a, b) == IF Less(b, a) THEN b ELSE a

\* the greater of two numbers
Max2(a, b) == IF Less(a, b) THEN b ELSE a

\* Math.min(...values), for the elements lo..hi; +Infinity for none
RECURSIVE MathMin(_, _, _)
MathMin(values, lo, hi) ==
    IF lo > hi THEN Inf(1)
    ELSE IF lo = hi THEN Min2(Inf(1), values[lo])
    ELSE LET mid == (lo + hi) \div 2
         IN  Min2(MathMin(values, lo, mid), MathMin(values, mid + 1, hi))

\* Math.max(...values), for the elements lo..hi; -Infinity for none
RECURSIVE MathMax(_, _, _)
MathMax(values, lo, hi) ==
    IF lo > hi THEN Inf(-1)
    ELSE IF lo = hi THEN Max2(Inf(-1), values[lo])
    ELSE LET mid == (lo + hi) \div 2
         IN  Max2(MathMax(values, lo, mid), MathMax(values, mid + 1, hi))

\* the values left in row order
SortAsc_Unsorted(values) == values

\* [...values].sort((a, b) => a - b): the values smaller than a pivot,
\* sorted, then those equal to it, then the greater ones, sorted (the values
\* are numbers and none is NaN, so equal ones cannot be told apart)
RECURSIVE SortAsc(_)
SortAsc(values) ==
    IF Len(values) <= 1 THEN values
    ELSE LET p == values[(Len(values) + 1) \div 2]
         IN  SortAsc(SelectSeq(values, LAMBDA v : Less(v, p)))
                \o SelectSeq(values, LAMBDA v : ~Less(v, p) /\ ~Less(p, v))
                \o SortAsc(SelectSeq(values, LAMBDA v : Less(p, v)))

\* the median of the sorted values: midIndex = Math.floor(length / 2)
Median(values) ==
    LET sortedValues == SortAsc(values)
        midIndex     == Len(sortedValues) \div 2
    IN  IF Len(sortedValues) % 2 = 0
        THEN DivInt(Add(sortedValues[midIndex], sortedValues[midIndex + 1]), 2)
        ELSE sortedValues[midIndex + 1]

\* the entry of one numeric column
NumericStats(values) ==
    LET sum == Reduce(values, 1, Len(values))
    IN  [count   |-> Len(values),
         sum     |-> sum,
         average |-> DivInt(sum, Len(values)),
         min     |-> MathMin(values, 1, Len(values)),
         max     |-> MathMax(values, 1, Len(values)),
         median  |-> Median(values)]

\* values.length > 1
HasValues_MoreThanOne(values) == Len(values) > 1

\* values.length > 0
HasValues(values) == Len(values) > 0

\* numericColumns.forEach(column => ... quantitativeAnalysis[column] = ...)
QuantitativeAnalysis(rows, numericColumns) ==
    LET withValues == {c \in Range(numericColumns) : HasValues(StatValues(rows, c))}
    IN  [c \in withValues |-> NumericStats(StatValues(rows, c))]

(***************************************************************************)
(* Qualitative sampling                                                    *)
(***************************************************************************)
\* comment && String(comment).trim().length > 0
IsComment(comment) == Truthy(comment) /\ Len(Trim(ToString(comment))) > 0

\* seq.slice(0, n)
Slice(seq, n) == SubSeq(seq, 1, Min(n, Len(seq)))

\* data.map(row => row[column]).filter(...).slice(0, 50)
Comments(rows, column) ==
    Slice(SelectSeq([i \in 1..Len(rows) |-> Get(rows[i], column)], IsComment),
          CommentCap)

\* textColumns.forEach(column => ... qualitativeAnalysis[column] = ...)
QualitativeAnalysis(rows, textColumns) ==
    [c \in Range(textColumns) |->
        LET comments == Comments(rows, c)
        IN  [totalEntries    |-> Len(rows),
             nonEmptyEntries |-> Len(comments),
             sampleComments  |-> Slice(comments, SampleCap)]]

(***************************************************************************)
(* analyzeSurveyData                                                       *)
(***************************************************************************)
ErrorResult == [error |-> "No data to analyze"]

\* the result for a dataset that has rows
Analysis(rows) ==
    LET allKeys        == ObjectKeys(rows[1])
        numericColumns == NumericColumns(rows, allKeys)
        textColumns    == TextColumns(allKeys, numericColumns)
    IN  [quantitative |-> QuantitativeAnalysis(rows, numericColumns),
         qualitative  |-> QualitativeAnalysis(rows, textColumns),
         metadata     |-> [totalRows      |-> Len(rows),
                           totalColumns   |-> Len(allKeys),
                           numericColumns |-> numericColumns,
                           textColumns    |-> textColumns]]

\* guard `if (!data)` only: Object.keys(data[0]) then throws on an empty array
analyzeSurveyData_NoLengthGuard(d) ==
    IF d.t # "array" THEN ErrorResult
    ELSE IF Len(d.rows) = 0 THEN [threw |-> "TypeError"]
    ELSE Analysis(d.rows)

\* function analyzeSurveyData(data)
analyzeSurveyData(d) ==
    IF d.t # "array" \/ Len(d.rows) = 0 THEN ErrorResult
    ELSE Analysis(d.rows)

(***************************************************************************)
(* Inputs: the datasets the analysis is run on                             *)
(***************************************************************************)
MaxRows == 2

MaxCoreRows == 3

MaxPairRows == 2

MaxStatRows == 4

MaxTail == 2

\* the cells of a column: absent, null, strings and numbers
ValuePool ==
    {Undefined, Null,
     Str(<<>>), Str(<<" ">>),
     Str(<<"2", "5">>), Str(<<"7", " ">>), Str(<<"2", ".", "5">>),
     Str(<<"1", "2", "a", "b", "c">>), Str(<<"0", "x", "1", "0">>),
     Str(<<"g", "o", "o", "d">>), Str(<<"I", "n", "f", "i", "n", "i", "t", "y">>),
     Num(Fin(0, 1)), Num(Fin(7, 1)), Num(Fin(-3, 1))}

CorePool ==
    {Undefined, Str(<<>>), Str(<<"2", "5">>), Str(<<"1", "2", "a", "b", "c">>),
     Str(<<"g", "o", "o", "d">>), Num(Fin(0, 1))}

PairPool == {Undefined, Str(<<"7">>), Str(<<"g", "o", "o", "d">>), Num(Fin(0, 1))}

StatPool == {Str(<<"1">>), Str(<<"2">>), Str(<<"3">>), Str(<<"4">>)}

LongPool ==
    {Str(<<>>), Str(<<"7">>), Str(<<"g", "o", "o", "d">>),
     Str(<<"1", "2", "a", "b", "c">>)}

\* run lengths around the window of 100 rows and the caps of 50 and 10
RunLengths ==
    {SampleCap - 1, SampleCap, CommentCap - 1, CommentCap,
     SampleWindow - 1, SampleWindow}

SeqsUpTo(S, n) == UNION {[1..k -> S] : k \in 0..n}

\* a cell that is undefined is a property the row does not have
Cell(key, v) == IF v.t = "undefined" THEN <<>> ELSE <<Prop(key, v)>>

ColumnRows(vs) == [i \in 1..Len(vs) |-> Cell("age", vs[i])]

\* one column, every kind of cell
ColumnDatasets == {Array(ColumnRows(vs)) : vs \in SeqsUpTo(ValuePool, MaxRows)}

\* one column, the cells that decide the threshold, more rows
CoreDatasets == {Array(ColumnRows(vs)) : vs \in SeqsUpTo(CorePool, MaxCoreRows)}

\* two columns
PairDatasets ==
    {Array(rows) :
        rows \in SeqsUpTo({Cell("age", a) \o Cell("comment", c) : a, c \in PairPool},
                          MaxPairRows)}

\* one column of numbers in any row order
StatDatasets == {Array(ColumnRows(vs)) : vs \in SeqsUpTo(StatPool, MaxStatRows)}

\* one column: a run of equal cells, then a few more rows
LongDatasets ==
    {Array(ColumnRows([i \in 1..k |-> f] \o tl)) :
        f \in LongPool, k \in RunLengths, tl \in SeqsUpTo(LongPool, MaxTail)}

Inputs ==
    {Null, Undefined} \cup ColumnDatasets \cup CoreDatasets \cup PairDatasets \cup StatDatasets
        \cup LongDatasets

(***************************************************************************)
(* The state machine: one call of analyzeSurveyData                        *)
(***************************************************************************)
VARIABLES data, result, pc

vars == <<data, result, pc>>

NoResult == [pending |-> TRUE]

Init ==
    /\ data \in Inputs
    /\ result = NoResult
    /\ pc = "called"

\* const analysisResult = analyzeSurveyData(jsonData)
Analyze ==
    /\ pc = "called"
    /\ result' = analyzeSurveyData(data)
    /\ pc' = "returned"
    /\ UNCHANGED data

Next == Analyze

Spec == Init /\ [][Next]_vars

(***************************************************************************)
(* Properties                                                              *)
(***************************************************************************)
Returned == pc = "returned"

\* the call returned the analysis of a dataset that has rows
Analyzed == Returned /\ data.t = "array" /\ Len(data.rows) > 0

rows == data.rows

numericColumns == result.metadata.numericColumns

textColumns == result.metadata.textColumns

\* the column names: the keys of the first row
FirstKeys == {rows[1][i].key : i \in 1..Len(rows[1])}

\* the value of row i for a column
At(i, key) == Get(rows[i], key)

\* the rows of the sample window
Window == {i \in 1..Len(rows) : i <= SampleWindow}

\* present and neither null nor the empty string
Present(v) == v.t \notin {"undefined", "null"} /\ v # Str(<<>>)

\* the rows of a set whose value for the column is valid / numeric-like
ValidIn(S, key) == {i \in S : Present(At(i, key))}

NumericIn(S, key) == {i \in ValidIn(S, key) : IsNumericLike(At(i, key))}

\* at least half of the valid values of the rows of S are numeric-like
HalfNumeric(S, key) ==
    /\ Cardinality(ValidIn(S, key)) > 0
    /\ 2 * Cardinality(NumericIn(S, key)) >= Cardinality(ValidIn(S, key))

\* the rows whose value for the column parses to a number
Parseable(key) == {i \in 1..Len(rows) : parseFloat(At(i, key)).k # "nan"}

----------------------------------------------------------------------------
\* C1: for a non-empty dataset, metadata.numericColumns and
\* metadata.textColumns partition the first row's key set: no name is in
\* both, every key is in one of them, and no name is listed twice.
C1_Partition ==
    Analyzed =>
        /\ Range(numericColumns) \cap Range(textColumns) = {}
        /\ Range(numericColumns) \cup Range(textColumns) = FirstKeys
        /\ Len(numericColumns) + Len(textColumns) = Cardinality(FirstKeys)

\* a dataset with a Numeric and a Text column
C1_Witness == Analyzed /\ Len(numericColumns) >= 1 /\ Len(textColumns) >= 1

----------------------------------------------------------------------------
\* C2: a column is Numeric iff, within the first min(rowCount, 100) rows,
\* totalValid > 0 and numericCount / totalValid >= 0.5; otherwise it is
\* Text.  A column whose sampled values are all empty or missing is Text,
\* and rows after the 100th never change the classification.
C2_Classification ==
    Analyzed =>
        \A key \in FirstKeys :
            /\ key \in Range(numericColumns) <=> HalfNumeric(Window, key)
            /\ key \in Range(textColumns) <=> ~HalfNumeric(Window, key)
            /\ ValidIn(Window, key) = {} => key \in Range(textColumns)

\* more than 100 rows, and a column that is Text although at least half of
\* the valid values of all its rows are numeric-like
C2_Witness ==
    /\ Analyzed
    /\ Len(rows) > SampleWindow
    /\ \E key \in FirstKeys :
          /\ key \in Range(textColumns)
          /\ HalfNumeric(1..Len(rows), key)

----------------------------------------------------------------------------
\* n times the number x, for n >= 1
Times(n, x) == IF x.k = "fin" THEN Fin(n * x.n, x.d) ELSE x

\* the sum, over the numbers of the set S, of the number times the count
\* of rows whose value parses to it
RECURSIVE SumByValue(_, _)
SumByValue(S, key) ==
    IF S = {} THEN Fin(0, 1)
    ELSE LET x == CHOOSE y \in S : TRUE
             n == Cardinality({i \in Parseable(key) : parseFloat(At(i, key)) = x})
         IN  Add(Times(n, x), SumByValue(S \ {x}, key))

\* C3: the statistics of a Numeric column are computed over all rows: count
\* is the number of rows whose value parses to a number, sum is the sum of
\* those parsed values, average is sum / count, and min and max are the
\* least and the greatest of them.
C3_Statistics ==
    Analyzed =>
        \A c \in DOMAIN result.quantitative :
            LET st == result.quantitative[c]
                P  == Parseable(c)
            IN  /\ st.count = Cardinality(P)
                /\ st.sum = SumByValue({parseFloat(At(i, c)) : i \in P}, c)
                /\ st.average.k = st.sum.k
                /\ st.sum.k = "fin" =>
                      st.average.n * st.sum.d * st.count = st.sum.n * st.average.d
                /\ st.sum.k = "inf" => st.average = st.sum
                /\ \E i \in P : parseFloat(At(i, c)) = st.min
                /\ \A i \in P : ~Less(parseFloat(At(i, c)), st.min)
                /\ \E i \in P : parseFloat(At(i, c)) = st.max
                /\ \A i \in P : ~Less(st.max, parseFloat(At(i, c)))

\* a column whose count includes rows after the 100th
C3_Witness ==
    /\ Analyzed
    /\ \E c \in DOMAIN result.quantitative :
          /\ result.quantitative[c].count > SampleWindow
          /\ result.quantitative[c].sum.k = "fin"
          /\ result.quantitative[c].sum.n > 7 * SampleWindow

----------------------------------------------------------------------------
\* C4: for an empty or absent dataset analyzeSurveyData returns exactly
\* { error: "No data to analyze" }: a value, with no quantitative,
\* qualitative or metadata field.
C4_EmptyDataset ==
    (Returned /\ (data.t # "array" \/ Len(data.rows) = 0)) =>
        /\ result = [error |-> "No data to analyze"]
        /\ DOMAIN result = {"error"}

\* the call returned for an array without rows
C4_Witness == Returned /\ data.t = "array" /\ Len(data.rows) = 0

----------------------------------------------------------------------------
\* a value that is neither missing nor empty once its string form is trimmed
NonEmpty(v) == v.t \notin {"undefined", "null"} /\ Trim(ToString(v)) # <<>>

\* the non-empty values of a column, in row order
NonEmptyValues(key) ==
    SelectSeq([i \in 1..Len(rows) |-> At(i, key)], NonEmpty)

\* C5: for every Text column, nonEmptyEntries is min(50, N), N the number
\* of non-empty values of the column over all rows, and sampleComments is
\* the first min(10, N) non-empty values in row order.
C5_SampleCaps ==
    Analyzed =>
        \A c \in DOMAIN result.qualitative :
            LET ne == NonEmptyValues(c)
                q  == result.qualitative[c]
            IN  /\ q.nonEmptyEntries = Min(CommentCap, Len(ne))
                /\ q.sampleComments = SubSeq(ne, 1, Min(SampleCap, Len(ne)))

\* The caps themselves, over the values the filter of the code keeps: at
\* most 50 counted, at most 10 sampled, the sample a prefix of the kept
\* values in row order.
CapsOverKeptValues ==
    Analyzed =>
        \A c \in DOMAIN result.qualitative :
            LET kept == SelectSeq([i \in 1..Len(rows) |-> At(i, c)],
                                  LAMBDA v : Truthy(v) /\ NonEmpty(v))
                q    == result.qualitative[c]
            IN  /\ q.nonEmptyEntries = Min(CommentCap, Len(kept))
                /\ q.sampleComments = SubSeq(kept, 1, Min(SampleCap, Len(kept)))
                /\ q.totalEntries = Len(rows)

\* more than 50 kept values: 50 counted and 10 sampled
CapsReached ==
    /\ Analyzed
    /\ \E c \in DOMAIN result.qualitative :
          /\ Len(NonEmptyValues(c)) > CommentCap
          /\ result.qualitative[c].nonEmptyEntries = CommentCap
          /\ Len(result.qualitative[c].sampleComments) = SampleCap

----------------------------------------------------------------------------
\* a string with a numeric prefix followed by characters that are not part
\* of the number
PrefixThenOther(v) ==
    /\ v.t = "string"
    /\ LET s == TrimStart(v.s)
           p == StrDecimalPrefix(s)
       IN  p.ok /\ p.len < Len(s)

\* the string, trimmed, is as a whole a finite numeric literal for Number()
WholeLiteral(v) == v.t = "string" /\ StringToNumber(v.s).k = "fin"

\* a decimal numeral such as "25", or a finite number such as 25
PlainNumber(v) ==
    \/ v.t = "number" /\ v.v.k = "fin"
    \/ /\ v.t = "string"
       /\ v.s # <<>>
       /\ RunLen(v.s, Digits) = Len(v.s)

\* the valid sampled values of the column are all of the given kind, and
\* there is one
AllSampled(key, Kind(_)) ==
    /\ ValidIn(Window, key) # {}
    /\ \A i \in ValidIn(Window, key) : Kind(At(i, key))

\* C6 as stated: a string with a numeric prefix followed by non-numeric
\* trailing characters counts as numeric-like, so a column whose sampled
\* valid values are all of that form is Numeric.
C6_PrefixCountsAsNumeric ==
    Analyzed =>
        \A key \in FirstKeys :
            AllSampled(key, PrefixThenOther) => key \in Range(numericColumns)

\* C6 amended: a string with a numeric prefix followed by other characters
\* counts as numeric-like only if the whole trimmed string is a finite
\* numeric literal for Number() (trailing white space, a 0x literal);
\* otherwise, as "12abc", it counts in totalValid only, and a column whose
\* sampled valid values are all of that form is Text, while one whose
\* sampled valid values are all numerals or numbers such as "25" and 25 is
\* Numeric.
C6_PrefixNeedsWholeLiteral ==
    Analyzed =>
        \A key \in FirstKeys :
            /\ AllSampled(key, LAMBDA v : PrefixThenOther(v) /\ ~WholeLiteral(v))
                  => key \in Range(textColumns)
            /\ AllSampled(key, LAMBDA v : PrefixThenOther(v) /\ WholeLiteral(v))
                  => key \in Range(numericColumns)
            /\ AllSampled(key, PlainNumber) => key \in Range(numericColumns)

\* a Text column whose only valid sampled values are strings such as "12abc"
C6_Witness ==
    /\ Analyzed
    /\ \E key \in Range(textColumns) :
          AllSampled(key, LAMBDA v : PrefixThenOther(v) /\ ~WholeLiteral(v))

----------------------------------------------------------------------------
\* C7: a Numeric column has an entry in quantitative iff at least one row
\* of the full dataset has a parseable value for it; without one it has no
\* entry but stays in metadata.numericColumns; it never has an entry in
\* qualitative.
C7_EntryIffParseable ==
    Analyzed =>
        \A c \in FirstKeys :
            /\ c \in Range(numericColumns) =>
                  /\ c \in DOMAIN result.quantitative <=> Parseable(c) # {}
                  /\ c \notin DOMAIN result.qualitative
            /\ (HalfNumeric(Window, c) /\ Parseable(c) = {}) =>
                  /\ c \in Range(numericColumns)
                  /\ c \notin DOMAIN result.quantitative

\* a Numeric column with a single parseable value, and its entry
C7_Witness ==
    /\ Analyzed
    /\ \E c \in Range(numericColumns) :
          /\ Cardinality(Parseable(c)) = 1
          /\ c \in DOMAIN result.quantitative

----------------------------------------------------------------------------
\* the parsed values of a column, one per row that parses
ParsedAt(key) == [i \in Parseable(key) |-> parseFloat(At(i, key))]

\* the element at 0-based index k of the parsed values in ascending order
KthSmallest(key, k) ==
    LET f == ParsedAt(key)
    IN  CHOOSE x \in {f[i] : i \in DOMAIN f} :
            /\ Cardinality({i \in DOMAIN f : Less(f[i], x)}) <= k
            /\ Cardinality({i \in DOMAIN f : ~Less(x, f[i])}) > k

\* C8: median is the middle element of the ascending-sorted parsed values
\* (0-based index (count-1)/2) when count is odd, and the mean of the
\* elements at 0-based indices count/2 - 1 and count/2 when count is even,
\* whatever the row order.
C8_Median ==
    Analyzed =>
        \A c \in DOMAIN result.quantitative :
            LET n == Cardinality(Parseable(c))
            IN  /\ n >= 1
                /\ n % 2 = 1 =>
                      result.quantitative[c].median = KthSmallest(c, (n - 1) \div 2)
                /\ n % 2 = 0 =>
                      result.quantitative[c].median =
                          DivInt(Add(KthSmallest(c, (n \div 2) - 1),
                                     KthSmallest(c, n \div 2)), 2)

\* the rows 4, 1, 3, 2: median 2.5
C8_Witness ==
    /\ Analyzed
    /\ Len(rows) = 4
    /\ \E c \in DOMAIN result.quantitative :
          /\ [i \in 1..4 |-> parseFloat(At(i, c))]
                = <<Fin(4, 1), Fin(1, 1), Fin(3, 1), Fin(2, 1)>>
          /\ result.quantitative[c].median = Fin(5, 2)

----------------------------------------------------------------------------
\* C9: for a Text column, a row's value is left out of the working set iff
\* it is missing or its string form is empty after trimming; every other
\* value, the number 0 included, is kept.  (Stated for datasets of at most
\* 10 rows, where sampleComments is the whole working set.)
C9_KeptIffNonEmpty ==
    (Analyzed /\ Len(rows) <= SampleCap) =>
        \A c \in DOMAIN result.qualitative :
            \A i \in 1..Len(rows) :
                At(i, c) \in Range(result.qualitative[c].sampleComments)
                    <=> NonEmpty(At(i, c))

----------------------------------------------------------------------------
\* C10: the keys of quantitative are among metadata.numericColumns and the
\* keys of qualitative are exactly metadata.textColumns; every Numeric
\* column has a parseable value in the full dataset (a value counted
\* numeric-like in the window is kept by the statistics filter), so the
\* keys of quantitative are exactly metadata.numericColumns and every entry
\* has count >= 1.
C10_KeySets ==
    Analyzed =>
        /\ DOMAIN result.quantitative \subseteq Range(numericColumns)
        /\ DOMAIN result.qualitative = Range(textColumns)
        /\ \A key \in FirstKeys :
              \A i \in NumericIn(Window, key) : i \in Parseable(key)
        /\ \A c \in Range(numericColumns) : Parseable(c) # {}
        /\ DOMAIN result.quantitative = Range(numericColumns)
        /\ \A c \in DOMAIN result.quantitative : result.quantitative[c].count >= 1

\* a Numeric column with an entry although one of its values does not parse
C10_Witness ==
    /\ Analyzed
    /\ \E c \in Range(numericColumns) :
          /\ c \in DOMAIN result.quantitative
          /\ Cardinality(Parseable(c)) < Len(rows)

=============================================================================
